---- MODULE Spec2Model ----
(***************************************************************************)
(* HR attrition dashboard: the row loader and the aggregating endpoints    *)
(* of server.py (http.server, one request at a time) and main.py (FastAPI, *)
(* sync endpoints run on a thread pool).                                   *)
(*                                                                         *)
(* Text is a sequence of Unicode code points, so that string comparison,   *)
(* sorting, int() and f-string formatting are computed the way Python      *)
(* computes them.  None is the one-element sequence <<-1>>, which is no    *)
(* text.  A decimal produced by round(x, n) is kept as the integer         *)
(* x * 10^n (a rate of 33.3 is 333); for the group sizes reached here the  *)
(* float quotient rounds like the exact quotient (every tie has a dyadic   *)
(* value, which Python rounds half-to-even).                               *)
(***************************************************************************)
EXTENDS Integers, Sequences, FiniteSets, TLC

VARIABLES data, pc, request, rows, response, cursor

vars == <<data, pc, request, rows, response, cursor>>

-----------------------------------------------------------------------------
(* Bounds *)

MaxRows == 3

MaxThreads == 2

-----------------------------------------------------------------------------
(* Python values *)

None == <<-1>>

IsExc(v) == "exc" \in DOMAIN v

Raise(name) == [exc |-> name]

Max(a, b) == IF a >= b THEN a ELSE b

Min(a, b) == IF a <= b THEN a ELSE b

RECURSIVE SumSeq(_)
SumSeq(s) == IF s = <<>> THEN 0 ELSE Head(s) + SumSeq(Tail(s))

\* str < str: lexicographic by code point
RECURSIVE TextLess(_, _)
TextLess(a, b) ==
    IF a = <<>> THEN b # <<>>
    ELSE IF b = <<>> THEN FALSE
    ELSE IF Head(a) # Head(b) THEN Head(a) < Head(b)
    ELSE TextLess(Tail(a), Tail(b))

RECURSIVE SortAsc(_)
SortAsc(S) ==
    IF S = {} THEN <<>>
    ELSE LET m == CHOOSE x \in S : \A y \in S \ {x} : TextLess(x, y)
         IN  <<m>> \o SortAsc(S \ {m})

RECURSIVE SortDesc(_)
SortDesc(S) ==
    IF S = {} THEN <<>>
    ELSE LET m == CHOOSE x \in S : \A y \in S \ {x} : TextLess(y, x)
         IN  <<m>> \o SortDesc(S \ {m})

\* sorted(keys, reverse=True)
sorted_Reversed(S) ==
    IF None \in S /\ Cardinality(S) > 1 THEN Raise("TypeError") ELSE [val |-> SortDesc(S)]

\* sorted(keys): comparing None with a str raises TypeError; a single key is
\* never compared
sorted(S) ==
    IF None \in S /\ Cardinality(S) > 1 THEN Raise("TypeError") ELSE [val |-> SortAsc(S)]

WhiteSpace == {9, 10, 11, 12, 13, 32}

RECURSIVE LStrip(_)
LStrip(s) == IF s # <<>> /\ Head(s) \in WhiteSpace THEN LStrip(Tail(s)) ELSE s

RECURSIVE RStrip(_)
RStrip(s) ==
    IF s # <<>> /\ s[Len(s)] \in WhiteSpace THEN RStrip(SubSeq(s, 1, Len(s) - 1)) ELSE s

IsDigit(c) == c \in 48..57

\* digits with single underscores between them
DigitString(s) ==
    /\ s # <<>>
    /\ IsDigit(s[1]) /\ IsDigit(s[Len(s)])
    /\ \A i \in 1..Len(s) : IsDigit(s[i]) \/ (s[i] = 95 /\ IsDigit(s[i - 1]) /\ IsDigit(s[i + 1]))

RECURSIVE DigitsValue(_, _)
DigitsValue(s, acc) ==
    IF s = <<>> THEN acc
    ELSE IF Head(s) = 95 THEN DigitsValue(Tail(s), acc)
    ELSE DigitsValue(Tail(s), acc * 10 + (Head(s) - 48))

\* int(x) for a csv field: [val |-> n], or the exception raised
int(x) ==
    IF x = None THEN Raise("TypeError")
    ELSE LET t == RStrip(LStrip(x))
             signed == t # <<>> /\ t[1] \in {43, 45}
             d == IF signed THEN Tail(t) ELSE t
         IN  IF ~DigitString(d) THEN Raise("ValueError")
             ELSE [val |-> IF signed /\ t[1] = 45 THEN 0 - DigitsValue(d, 0)
                           ELSE DigitsValue(d, 0)]

RECURSIVE DigitsOf(_)
DigitsOf(n) == IF n < 10 THEN <<48 + n>> ELSE DigitsOf(n \div 10) \o <<48 + (n % 10)>>

\* str(n) as an f-string field formats it
str(n) == IF n < 0 THEN <<45>> \o DigitsOf(0 - n) ELSE DigitsOf(n)

\* round(num / den * 10^n) with num already scaled: nearest integer, ties to even
RoundHalfEven(num, den) ==
    LET q == num \div den
        r == num % den
    IN  IF 2 * r < den THEN q
        ELSE IF 2 * r > den THEN q + 1
        ELSE IF q % 2 = 0 THEN q ELSE q + 1

\* round(a / b * scale, n): a division by zero raises
RoundDiv(a, b) == IF b = 0 THEN Raise("ZeroDivisionError") ELSE [val |-> RoundHalfEven(a, b)]

\* the first exception of a sequence of evaluations, or NoExc when none raises
NoExc == [val |-> 0]

RECURSIVE FirstExc(_)
FirstExc(s) ==
    IF s = <<>> THEN NoExc
    ELSE IF IsExc(Head(s)) THEN Head(s)
    ELSE FirstExc(Tail(s))

\* [f(r) for r in rows]
Map(s, F(_)) == [i \in 1..Len(s) |-> F(s[i])]

\* Counter: number of rows whose key is k
Count(s, Test(_)) == Cardinality({i \in 1..Len(s) : Test(s[i])})

-----------------------------------------------------------------------------
(* Texts of the datasets *)

Yes == <<89, 101, 115>>

No == <<78, 111>>

\* "F", "M", "X"
F == <<70>>

M == <<77>>

X == <<88>>

\* "Dev", "QA"
Dev == <<68, 101, 118>>

QA == <<81, 65>>

\* "HR", "IT"
HR == <<72, 82>>

IT == <<73, 84>>

\* "Med", "Art", "art"
Med == <<77, 101, 100>>

Art == <<65, 114, 116>>

art == <<97, 114, 116>>

\* one row as csv.DictReader yields it; a short row has None in the fields
\* it lacks
Employee(gender, role, edu, dept, attr, age, income, sat, ot, field, years) ==
    [Gender |-> gender, JobRole |-> role, Education |-> edu, Department |-> dept,
     Attrition |-> attr, Age |-> age, MonthlyIncome |-> income,
     JobSatisfaction |-> sat, EnvironmentSatisfaction |-> <<51>>,
     RelationshipSatisfaction |-> <<50>>, WorkLifeBalance |-> <<52>>,
     JobInvolvement |-> sat, OverTime |-> ot, EducationField |-> field,
     YearsAtCompany |-> years]

\* Age "30", "17", "61", "70", "3x"; YearsAtCompany "2", "0", "55", "40", None
Employees ==
    { Employee(F, Dev, <<49>>, HR, Yes, <<51, 48>>, <<50>>, <<49>>, Yes, Med, <<50>>),
      Employee(M, QA, <<50>>, IT, No, <<49, 55>>, <<51>>, <<52>>, No, Art, <<48>>),
      Employee(F, Dev, <<50>>, IT, No, <<54, 49>>, <<53>>, <<50>>, No, Med, <<53, 53>>),
      Employee(M, Dev, <<49>>, HR, Yes, <<55, 48>>, <<52>>, <<51>>, Yes, art, <<52, 48>>),
      Employee(F, QA, <<49>>, HR, No, <<51, 120>>, <<50>>, <<50>>, No, Art, <<49>>),
      Employee(M, QA, <<50>>, IT, Yes, <<51, 48>>, <<51>>, <<49>>, Yes, Med, None) }

SeqsUpTo(S, n) == UNION {[1..k -> S] : k \in 0..n}

Datasets == SeqsUpTo(Employees, MaxRows)

-----------------------------------------------------------------------------
(* server.py *)

EDUCATION_MAP ==
    ( <<49>> :> <<66, 101, 108, 111, 119, 32, 67, 111, 108, 108, 101, 103, 101>> ) @@
    ( <<50>> :> <<67, 111, 108, 108, 101, 103, 101>> ) @@
    ( <<51>> :> <<66, 97, 99, 104, 101, 108, 111, 114>> ) @@
    ( <<52>> :> <<77, 97, 115, 116, 101, 114>> ) @@
    ( <<53>> :> <<68, 111, 99, 116, 111, 114>> )

\* a constraint that is None or "" is falsy and filters nothing
Truthy(c) == c # None /\ c # <<>>

\* the loader without its department test
Keeps_NoDepartment(row, gender, job_role, education, department) ==
    /\ ~(Truthy(gender) /\ row.Gender # gender)
    /\ ~(Truthy(job_role) /\ row.JobRole # job_role)
    /\ ~(Truthy(education) /\ row.Education # education)

Keeps(row, gender, job_role, education, department) ==
    /\ ~(Truthy(gender) /\ row.Gender # gender)
    /\ ~(Truthy(job_role) /\ row.JobRole # job_role)
    /\ ~(Truthy(education) /\ row.Education # education)
    /\ ~(Truthy(department) /\ row.Department # department)

load_data(gender, job_role, education, department) ==
    SelectSeq(data, LAMBDA row : Keeps(row, gender, job_role, education, department))

\* urllib.parse.parse_qs on the decoded name=value pairs of a query string:
\* pairs with a blank value are dropped, values are listed per name in order
parse_qs(qs) ==
    LET kept == SelectSeq(qs, LAMBDA nv : nv[2] # <<>>)
    IN  [k \in {kept[i][1] : i \in 1..Len(kept)} |->
            Map(SelectSeq(kept, LAMBDA nv : nv[1] = k), LAMBDA nv : nv[2])]

get_params(qs) ==
    LET p == parse_qs(qs)
        first(k) == IF k \in DOMAIN p THEN p[k][1] ELSE None
    IN  [gender |-> first("gender"), job_role |-> first("job_role"),
         education |-> first("education"), department |-> first("department")]

Load(p) == load_data(p.gender, p.job_role, p.education, p.department)

Keys(rs, f) == {rs[i][f] : i \in 1..Len(rs)}

\* [int(r[f]) for r in rows]
Ints(rs, f) == Map(rs, LAMBDA r : int(r[f]))

Vals(s) == Map(s, LAMBDA v : v.val)

Left(rs) == SelectSeq(rs, LAMBDA r : r.Attrition = Yes)

\* the rate cut to one decimal instead of rounded
Rate_Truncated(attr, total) == IF total # 0 THEN (attr * 1000) \div total ELSE 0

\* round(attr / total * 100, 1) if total else 0
Rate(attr, total) == IF total # 0 THEN RoundDiv(attr * 1000, total).val ELSE 0

api_filters ==
    LET rs == load_data(None, None, None, None)
        genders == sorted(Keys(rs, "Gender"))
        job_roles == sorted(Keys(rs, "JobRole"))
        educations == Map(SortAsc(DOMAIN EDUCATION_MAP),
                          LAMBDA k : [value |-> k, label |-> EDUCATION_MAP[k]])
        departments == sorted(Keys(rs, "Department"))
        exc == FirstExc(<<genders, job_roles, departments>>)
    IN  IF IsExc(exc) THEN exc
        ELSE [genders |-> genders.val, job_roles |-> job_roles.val,
              educations |-> educations, departments |-> departments.val]

\* the KPI summary without the early return for an empty selection
api_kpis_NoEmptyCheck(p) ==
    LET rs == Load(p)
        total == Len(rs)
        attr == Len(Left(rs))
        ages == Ints(rs, "Age")
        incomes == Ints(rs, "MonthlyIncome")
        sats == Ints(rs, "JobSatisfaction")
        rate == RoundDiv(attr * 1000, total)
        exc == FirstExc(<<rate>> \o ages \o incomes \o sats)
    IN  IF IsExc(exc) THEN exc
        ELSE [total |-> total,
              attrition_rate |-> rate.val,
              avg_age |-> RoundHalfEven(SumSeq(Vals(ages)) * 10, total),
              avg_income |-> RoundHalfEven(SumSeq(Vals(incomes)), total),
              avg_satisfaction |-> RoundHalfEven(SumSeq(Vals(sats)) * 100, total)]

api_kpis(p) ==
    LET rs == Load(p)
        total == Len(rs)
        attr == Len(Left(rs))
        ages == Ints(rs, "Age")
        incomes == Ints(rs, "MonthlyIncome")
        sats == Ints(rs, "JobSatisfaction")
        rate == RoundDiv(attr * 1000, total)
        exc == FirstExc(<<rate>> \o ages \o incomes \o sats)
    IN  IF total = 0
        THEN [total |-> 0, attrition_rate |-> 0, avg_age |-> 0, avg_income |-> 0,
              avg_satisfaction |-> 0]
        ELSE IF IsExc(exc) THEN exc
        ELSE [total |-> total,
              attrition_rate |-> rate.val,
              avg_age |-> RoundHalfEven(SumSeq(Vals(ages)) * 10, total),
              avg_income |-> RoundHalfEven(SumSeq(Vals(incomes)), total),
              avg_satisfaction |-> RoundHalfEven(SumSeq(Vals(sats)) * 100, total)]

\* the category views counting every row of a group as a leaver
CountView_AllLeave(rs, f, withRate) ==
    LET keys == sorted(Keys(rs, f))
        labels == keys.val
        total == Map(labels, LAMBDA l : Count(rs, LAMBDA r : r[f] = l))
    IN  IF IsExc(keys) THEN keys
        ELSE IF withRate
        THEN [labels |-> labels, total |-> total, attrition |-> total,
              rate |-> [i \in 1..Len(labels) |-> Rate(total[i], total[i])]]
        ELSE [labels |-> labels, total |-> total, attrition |-> total]

\* the Counter pair of the category views: rows and leavers per key, labels
\* sorted
CountView(rs, f, withRate) ==
    LET keys == sorted(Keys(rs, f))
        labels == keys.val
        total == Map(labels, LAMBDA l : Count(rs, LAMBDA r : r[f] = l))
        attrition == Map(labels, LAMBDA l : Count(rs, LAMBDA r : r[f] = l /\ r.Attrition = Yes))
    IN  IF IsExc(keys) THEN keys
        ELSE IF withRate
        THEN [labels |-> labels, total |-> total, attrition |-> attrition,
              rate |-> [i \in 1..Len(labels) |-> Rate(attrition[i], total[i])]]
        ELSE [labels |-> labels, total |-> total, attrition |-> attrition]

api_attrition_dept(p) == CountView(Load(p), "Department", TRUE)

api_attrition_jobrole(p) == CountView(Load(p), "JobRole", TRUE)

api_gender_split(p) == CountView(Load(p), "Gender", FALSE)

api_edu_field(p) == CountView(Load(p), "EducationField", FALSE)

\* list(range(start, stop, step)) for a positive step
range(start, stop, step) ==
    [i \in 1..(IF stop > start THEN (stop - start + step - 1) \div step ELSE 0) |->
        start + (i - 1) * step]

\* f"{b}-{b+4}"
BinLabel(b) == str(b) \o <<45>> \o str(b + 4)

\* the bin index clamped at both ends
BinIndex_ClampLow(age, nbins) == Max(0, Min((age - 18) \div 5, nbins - 1))

\* min((age - 18) // 5, len(bins) - 1), the 0-based bin of an age
BinIndex(age, nbins) == Min((age - 18) \div 5, nbins - 1)

api_age_dist(p) ==
    LET rs == Load(p)
        bins == range(18, 65, 5)
        labels == Map(bins, BinLabel)
        ages == Ints(rs, "Age")
        exc == FirstExc(ages)
        idx(i) == BinIndex(ages[i].val, Len(bins))
        counted(i) == 0 <= idx(i) /\ idx(i) < Len(bins)
    IN  IF IsExc(exc) THEN exc
        ELSE [labels |-> labels,
              total |-> [b \in 1..Len(bins) |->
                  Cardinality({i \in 1..Len(rs) : counted(i) /\ idx(i) = b - 1})],
              attrition |-> [b \in 1..Len(bins) |->
                  Cardinality({i \in 1..Len(rs) :
                      counted(i) /\ idx(i) = b - 1 /\ rs[i].Attrition = Yes})]]

api_income_role(p) ==
    LET rs == Load(p)
        incomes == Ints(rs, "MonthlyIncome")
        keys == sorted(Keys(rs, "JobRole"))
        exc == FirstExc(incomes \o <<keys>>)
        \* role_income[l], in row order
        role_income(l) == Vals(Ints(SelectSeq(rs, LAMBDA r : r.JobRole = l), "MonthlyIncome"))
    IN  IF IsExc(exc) THEN exc
        ELSE [labels |-> keys.val,
              avg_income |-> Map(keys.val, LAMBDA l :
                  IF role_income(l) # <<>>
                  THEN RoundHalfEven(SumSeq(role_income(l)), Len(role_income(l)))
                  ELSE 0)]

\* the position list[idx] addresses in a list of n items: a negative index
\* counts from the end, an index outside -n..n-1 raises IndexError
ListIndex(idx, n) ==
    IF 0 <= idx /\ idx < n THEN [val |-> idx + 1]
    ELSE IF 0 - n <= idx /\ idx < 0 THEN [val |-> idx + n + 1]
    ELSE Raise("IndexError")

api_satisfaction(p) ==
    LET rs == Load(p)
        \* "1 - Low", "2 - Medium", "3 - High", "4 - Very High"
        labels == << <<49, 32, 45, 32, 76, 111, 119>>,
                     <<50, 32, 45, 32, 77, 101, 100, 105, 117, 109>>,
                     <<51, 32, 45, 32, 72, 105, 103, 104>>,
                     <<52, 32, 45, 32, 86, 101, 114, 121, 32, 72, 105, 103, 104>> >>
        slot(r) == LET s == int(r.JobSatisfaction)
                   IN  IF IsExc(s) THEN s ELSE ListIndex(s.val - 1, 4)
        slots == Map(rs, slot)
        exc == FirstExc(slots)
    IN  IF IsExc(exc) THEN exc
        ELSE [labels |-> labels,
              stayed |-> [k \in 1..4 |-> Cardinality({i \in 1..Len(rs) :
                            slots[i].val = k /\ rs[i].Attrition # Yes})],
              left |-> [k \in 1..4 |-> Cardinality({i \in 1..Len(rs) :
                            slots[i].val = k /\ rs[i].Attrition = Yes})]]

api_overtime(p) ==
    LET rs == Load(p)
        \* data[r["OverTime"]][r["Attrition"]]: both keys must be "Yes" or "No"
        cell(r) == IF r.OverTime \in {Yes, No} /\ r.Attrition \in {Yes, No}
                   THEN [val |-> <<r.OverTime, r.Attrition>>] ELSE Raise("KeyError")
        cells == Map(rs, cell)
        exc == FirstExc(cells)
        n(ot, attr) == Cardinality({i \in 1..Len(rs) : cells[i].val = <<ot, attr>>})
    IN  IF IsExc(exc) THEN exc
        ELSE [labels |-> << <<87, 105, 116, 104, 32, 79, 118, 101, 114, 116, 105, 109, 101>>,
                            <<87, 105, 116, 104, 111, 117, 116, 32, 79, 118, 101, 114, 116,
                              105, 109, 101>> >>,
              stayed |-> <<n(Yes, No), n(No, No)>>,
              left |-> <<n(Yes, Yes), n(No, Yes)>>]

\* max(keys): the largest key; max() of nothing raises ValueError
max(S) ==
    IF S = {} THEN Raise("ValueError")
    ELSE [val |-> CHOOSE x \in S : \A y \in S : y <= x]

\* max(yt.keys()) without the guard for no rows
MaxYear_NoGuard(keys) == max(keys)

\* max(yt.keys()) if yt else 0
MaxYear(keys) == IF keys # {} THEN max(keys) ELSE [val |-> 0]

\* the labels without the cap at 40
YearLabels_NoCap(mx) == range(0, mx + 1, 1)

\* list(range(0, min(mx+1, 41)))
YearLabels(mx) == range(0, Min(mx + 1, 41), 1)

api_years_attrition(p) ==
    LET rs == Load(p)
        years == Ints(rs, "YearsAtCompany")
        yt(y) == Cardinality({i \in 1..Len(rs) : years[i].val = y})
        ya(y) == Cardinality({i \in 1..Len(rs) : years[i].val = y /\ rs[i].Attrition = Yes})
        mx == MaxYear({years[i].val : i \in 1..Len(rs)})
        parsed == FirstExc(years)
        exc == IF IsExc(parsed) THEN parsed ELSE FirstExc(<<mx>>)
        labels == YearLabels(mx.val)
    IN  IF IsExc(exc) THEN exc
        ELSE [labels |-> labels,
              attrition_rate |-> Map(labels, LAMBDA y : Rate(ya(y), yt(y))),
              total |-> Map(labels, yt)]

\* round(sum(xs) / len(xs), 2) if xs else 0
Avg2(xs) == IF xs # <<>> THEN RoundHalfEven(SumSeq(xs) * 100, Len(xs)) ELSE 0

api_worklife(p) ==
    LET rs == Load(p)
        metrics == <<"JobSatisfaction", "EnvironmentSatisfaction", "RelationshipSatisfaction",
                     "WorkLifeBalance", "JobInvolvement">>
        \* "Job Satisfaction", "Environment", "Relationships", "Work-Life Balance",
        \* "Job Involvement"
        labels == << <<74, 111, 98, 32, 83, 97, 116, 105, 115, 102, 97, 99, 116, 105, 111, 110>>,
                     <<69, 110, 118, 105, 114, 111, 110, 109, 101, 110, 116>>,
                     <<82, 101, 108, 97, 116, 105, 111, 110, 115, 104, 105, 112, 115>>,
                     <<87, 111, 114, 107, 45, 76, 105, 102, 101, 32, 66, 97, 108, 97, 110, 99, 101>>,
                     <<74, 111, 98, 32, 73, 110, 118, 111, 108, 118, 101, 109, 101, 110, 116>> >>
        stayed(m) == Ints(SelectSeq(rs, LAMBDA r : r.Attrition = No), m)
        left(m) == Ints(SelectSeq(rs, LAMBDA r : r.Attrition = Yes), m)
        exc == FirstExc(stayed(metrics[1]) \o left(metrics[1]) \o stayed(metrics[2])
                        \o left(metrics[2]) \o stayed(metrics[3]) \o left(metrics[3])
                        \o stayed(metrics[4]) \o left(metrics[4]) \o stayed(metrics[5])
                        \o left(metrics[5]))
    IN  IF IsExc(exc) THEN exc
        ELSE [labels |-> labels,
              stayed |-> Map(metrics, LAMBDA m : Avg2(Vals(stayed(m)))),
              left |-> Map(metrics, LAMBDA m : Avg2(Vals(left(m))))]

-----------------------------------------------------------------------------
(* server.py: routing and the HTTP handler *)

ApiPaths ==
    {"/api/filters", "/api/kpis", "/api/attrition-by-department",
     "/api/attrition-by-jobrole", "/api/age-distribution", "/api/gender-split",
     "/api/income-by-role", "/api/satisfaction-distribution",
     "/api/overtime-attrition", "/api/education-field", "/api/years-attrition",
     "/api/worklife-balance"}

\* ROUTES[path] applied as do_GET applies it: fn(get_params(query)) if
\* needs_params else fn()
ROUTES(path, qs) ==
    CASE path = "/api/filters" -> api_filters
      [] path = "/api/kpis" -> api_kpis(get_params(qs))
      [] path = "/api/attrition-by-department" -> api_attrition_dept(get_params(qs))
      [] path = "/api/attrition-by-jobrole" -> api_attrition_jobrole(get_params(qs))
      [] path = "/api/age-distribution" -> api_age_dist(get_params(qs))
      [] path = "/api/gender-split" -> api_gender_split(get_params(qs))
      [] path = "/api/income-by-role" -> api_income_role(get_params(qs))
      [] path = "/api/satisfaction-distribution" -> api_satisfaction(get_params(qs))
      [] path = "/api/overtime-attrition" -> api_overtime(get_params(qs))
      [] path = "/api/education-field" -> api_edu_field(get_params(qs))
      [] path = "/api/years-attrition" -> api_years_attrition(get_params(qs))
      [] path = "/api/worklife-balance" -> api_worklife(get_params(qs))

\* do_GET answering 200 with an empty payload when the handler raises
ApiResponse_Swallow(path, qs) ==
    LET result == ROUTES(path, qs)
    IN  IF IsExc(result) THEN [status |-> 200, body |-> [labels |-> <<>>]]
        ELSE [status |-> 200, body |-> result]

\* the response do_GET writes for an API path: 200 with the JSON payload, or
\* send_error(500) when the handler raises
ApiResponse(path, qs) ==
    LET result == ROUTES(path, qs)
    IN  IF IsExc(result) THEN [status |-> 500, error |-> result.exc]
        ELSE [status |-> 200, body |-> result]

\* the query strings of the requests, as their decoded name=value pairs
Queries ==
    { <<>>,
      << <<"gender", F>> >>,
      << <<"gender", <<>> >> >>,
      << <<"gender", X>> >>,
      << <<"job_role", QA>> >>,
      << <<"education", <<50>> >> >>,
      << <<"department", IT>> >>,
      << <<"gender", M>>, <<"department", HR>> >>,
      << <<"department", HR>>, <<"department", IT>> >> }

Paths == ApiPaths \cup {"/"}

Threads == 1..MaxThreads

\* http.server.HTTPServer serves on one thread
ServerThread == 1

NoRequest == [path |-> "", query |-> <<>>]

NoResponse == [status |-> 0]

Idle ==
    /\ pc = [t \in Threads |-> "idle"]
    /\ request = [t \in Threads |-> NoRequest]
    /\ rows = [t \in Threads |-> <<>>]
    /\ response = [t \in Threads |-> NoResponse]
    /\ cursor = [t \in Threads |-> 0]

Init ==
    /\ data \in Datasets
    /\ Idle

\* Handler.do_GET; any other path is served from the static directory, whose
\* files are not part of the model
do_GET(path, qs) ==
    /\ pc[ServerThread] = "idle"
    /\ pc' = [pc EXCEPT ![ServerThread] = "responded"]
    /\ request' = [request EXCEPT ![ServerThread] = [path |-> path, query |-> qs]]
    /\ IF path \in ApiPaths
       THEN response' = [response EXCEPT ![ServerThread] = ApiResponse(path, qs)]
       ELSE \E st \in {200, 404} :
               response' = [response EXCEPT ![ServerThread] = [status |-> st, file |-> "/index.html"]]
    /\ UNCHANGED <<data, rows, cursor>>

\* the request is finished and the server takes the next one
finish_request ==
    /\ pc[ServerThread] = "responded"
    /\ pc' = [pc EXCEPT ![ServerThread] = "idle"]
    /\ request' = [request EXCEPT ![ServerThread] = NoRequest]
    /\ response' = [response EXCEPT ![ServerThread] = NoResponse]
    /\ UNCHANGED <<data, rows, cursor>>

Next ==
    \/ \E path \in Paths, qs \in Queries : do_GET(path, qs)
    \/ finish_request

Spec == Init /\ [][Next]_vars

-----------------------------------------------------------------------------
(* The row loader called on its own: load_data(gender, job_role, education, *)
(* department) with every combination of absent, empty and text arguments.  *)
(* main.py passes "" for a parameter given as ?gender= ; server.py's        *)
(* parse_qs drops it.                                                       *)

Caller == 1

GenderArgs == {None, <<>>, F, X}

JobRoleArgs == {None, <<>>, QA}

EducationArgs == {None, <<>>, <<50>>}

DepartmentArgs == {None, <<>>, IT}

CallLoadData(gender, job_role, education, department) ==
    /\ pc[Caller] = "idle"
    /\ pc' = [pc EXCEPT ![Caller] = "loaded"]
    /\ request' = [request EXCEPT ![Caller] =
          [gender |-> gender, job_role |-> job_role, education |-> education,
           department |-> department]]
    /\ rows' = [rows EXCEPT ![Caller] = load_data(gender, job_role, education, department)]
    /\ UNCHANGED <<data, response, cursor>>

ReturnLoadData ==
    /\ pc[Caller] = "loaded"
    /\ pc' = [pc EXCEPT ![Caller] = "idle"]
    /\ request' = [request EXCEPT ![Caller] = NoRequest]
    /\ rows' = [rows EXCEPT ![Caller] = <<>>]
    /\ UNCHANGED <<data, response, cursor>>

LoadNext ==
    \/ \E g \in GenderArgs, j \in JobRoleArgs, e \in EducationArgs, d \in DepartmentArgs :
          CallLoadData(g, j, e, d)
    \/ ReturnLoadData

LoadSpec == Init /\ [][LoadNext]_vars

-----------------------------------------------------------------------------
(* C1 *)

\* the indices of the source rows that meet the constraints, a constraint
\* counting as supplied when Supplied(c) holds
Matching(args, Supplied(_)) ==
    {i \in 1..Len(data) :
        /\ Supplied(args.gender) => data[i].Gender = args.gender
        /\ Supplied(args.job_role) => data[i].JobRole = args.job_role
        /\ Supplied(args.education) => data[i].Education = args.education
        /\ Supplied(args.department) => data[i].Department = args.department}

\* rs is exactly the rows of data at the indices I, in source order
IsSelection(rs, I) ==
    /\ Len(rs) = Cardinality(I)
    /\ \A k \in 1..Len(rs) :
          \E i \in I : Cardinality({j \in I : j <= i}) = k /\ rs[k] = data[i]

\* C1 as stated: load_data returns, in source order, exactly the rows that
\* equal every constraint that is not None; a constraint given as "" then
\* selects the rows whose field is "".
C1_AsStated ==
    pc[Caller] = "loaded" =>
        IsSelection(rows[Caller], Matching(request[Caller], LAMBDA c : c # None))

\* C1 amended: load_data returns, in source order, exactly the rows that equal
\* every constraint that is neither None nor the empty string; a None or ""
\* constraint filters nothing.
C1_LoadDataFilters ==
    pc[Caller] = "loaded" =>
        IsSelection(rows[Caller],
                    Matching(request[Caller], LAMBDA c : c # None /\ c # <<>>))

\* a call with a text constraint and an empty one that keeps two rows and
\* drops one
C1_Witness ==
    /\ pc[Caller] = "loaded"
    /\ request[Caller].gender = F /\ request[Caller].department = <<>>
    /\ Len(rows[Caller]) = 2 /\ Len(data) = 3
    /\ rows[Caller][1] # rows[Caller][2]

-----------------------------------------------------------------------------
(* The request the server thread has answered, and the rows its criteria   *)
(* select                                                                  *)

Req == request[ServerThread]

Resp == response[ServerThread]

Answered(path) == pc[ServerThread] = "responded" /\ Req.path = path

Ok(path) == Answered(path) /\ Resp.status = 200

\* the filtered records of the answered request, as indices into the source
Filtered == Matching(get_params(Req.query), LAMBDA c : c # None /\ c # <<>>)

Leavers == {i \in Filtered : data[i].Attrition = Yes}

CategoryViews ==
    {"/api/attrition-by-department", "/api/attrition-by-jobrole", "/api/gender-split",
     "/api/education-field"}

YearsView == "/api/years-attrition"

\* the YearsAtCompany of source row i, once the view has parsed every row
YearsOf(i) == int(data[i].YearsAtCompany).val

AgeOf(i) == int(data[i].Age).val

-----------------------------------------------------------------------------
(* C2 *)

\* C2 as stated: in each of the five (a)-shaped views the total series sums to
\* the number of filtered records and the attrition series, where the view
\* returns one, to the number of filtered leavers.
C2_AsStated ==
    /\ \A path \in CategoryViews : Ok(path) =>
          /\ SumSeq(Resp.body.total) = Cardinality(Filtered)
          /\ SumSeq(Resp.body.attrition) = Cardinality(Leavers)
    /\ Ok(YearsView) => SumSeq(Resp.body.total) = Cardinality(Filtered)

\* C2 amended: in the department, job role, gender and education field views
\* the total series sums to the number of filtered records and the attrition
\* series to the number of filtered leavers; in the years-at-company view the
\* total series sums to the number of filtered records whose YearsAtCompany is
\* between 0 and 40.
C2_SeriesSums ==
    /\ \A path \in CategoryViews : Ok(path) =>
          /\ SumSeq(Resp.body.total) = Cardinality(Filtered)
          /\ SumSeq(Resp.body.attrition) = Cardinality(Leavers)
    /\ Ok(YearsView) =>
          SumSeq(Resp.body.total) =
              Cardinality({i \in Filtered : YearsOf(i) >= 0 /\ YearsOf(i) <= 40})

\* a years view over three records that leaves the one beyond 40 years out
C2_Witness ==
    /\ Ok(YearsView)
    /\ Cardinality(Filtered) = 3
    /\ \E i \in Filtered : YearsOf(i) > 40
    /\ SumSeq(Resp.body.total) = 2

-----------------------------------------------------------------------------
(* C3 *)

\* r is a / t * 100 rounded to one decimal, in tenths: the nearest tenth, the
\* even one of two equally near
IsRoundedRate(r, a, t) ==
    LET d == r * t - a * 1000
    IN  /\ 2 * d <= t /\ 2 * d >= 0 - t
        /\ (2 * d = t \/ 2 * d = 0 - t) => r % 2 = 0

RateOk(r, a, t) == IF t = 0 THEN r = 0 ELSE IsRoundedRate(r, a, t)

\* C3: in the department, job role and years-at-company results, rate[i] is 0
\* when total[i] is 0 and otherwise attrition[i] / total[i] * 100 rounded to
\* one decimal; no request fails on a division by zero.
C3_Rates ==
    /\ \A path \in {"/api/attrition-by-department", "/api/attrition-by-jobrole"} :
          Ok(path) => \A i \in 1..Len(Resp.body.labels) :
              RateOk(Resp.body.rate[i], Resp.body.attrition[i], Resp.body.total[i])
    /\ Ok(YearsView) => \A i \in 1..Len(Resp.body.labels) :
          RateOk(Resp.body.attrition_rate[i],
                 Cardinality({j \in Leavers : YearsOf(j) = Resp.body.labels[i]}),
                 Resp.body.total[i])
    /\ pc[ServerThread] = "responded" /\ Resp.status = 500 =>
          Resp.error # "ZeroDivisionError"

\* a department with two leavers of three, whose rate is 66.7
C3_Witness ==
    /\ Ok("/api/attrition-by-department")
    /\ \E i \in 1..Len(Resp.body.labels) :
          Resp.body.total[i] = 3 /\ Resp.body.attrition[i] = 2 /\ Resp.body.rate[i] = 667

-----------------------------------------------------------------------------
(* C4 *)

AgeView == "/api/age-distribution"

Aged(lo, hi) == {i \in Filtered : AgeOf(i) >= lo /\ AgeOf(i) <= hi}

-----------------------------------------------------------------------------
(* C5 *)

LabelledViews == ApiPaths \ {"/api/filters", "/api/kpis"}

WorklifeView == "/api/worklife-balance"

\* ascending: numerically for the integer labels of the years view,
\* by code point for text labels
Ascending(path, labels) ==
    \A i \in 1..Len(labels) - 1 :
        IF path = YearsView THEN labels[i] < labels[i + 1]
        ELSE TextLess(labels[i], labels[i + 1])

\* C5 as stated: the labels of every view are sorted ascending.
C5_AsStated ==
    \A path \in LabelledViews : Ok(path) => Ascending(path, Resp.body.labels)

\* C5 amended: the labels of every view other than work-life balance are
\* sorted ascending (by code point for text, numerically for years and ages),
\* as are the gender, job role and department lists of the filter options; the
\* work-life labels come in the fixed order of the five metrics, which is not
\* sorted.
C5_LabelsSorted ==
    /\ \A path \in LabelledViews \ {WorklifeView} :
          Ok(path) => Ascending(path, Resp.body.labels)
    /\ Ok("/api/filters") =>
          /\ Ascending("/api/filters", Resp.body.genders)
          /\ Ascending("/api/filters", Resp.body.job_roles)
          /\ Ascending("/api/filters", Resp.body.departments)
    /\ Ok(WorklifeView) => ~Ascending(WorklifeView, Resp.body.labels)

\* an education-field view whose three labels "Art" < "Med" < "art" come from
\* rows in another order
C5_Witness ==
    /\ Ok("/api/education-field")
    /\ Len(Resp.body.labels) = 3
    /\ Len(data) = 3 /\ data[1].EducationField = art /\ data[3].EducationField = Art

-----------------------------------------------------------------------------
(* C6 *)

KpiView == "/api/kpis"

\* C6: a KPI request whose criteria select no record is answered 200 with
\* exactly total 0, attrition_rate 0, avg_age 0, avg_income 0 and
\* avg_satisfaction 0; no division is evaluated before the emptiness check.
C6_EmptyKpis ==
    Answered(KpiView) /\ Filtered = {} =>
        Resp = [status |-> 200,
                body |-> [total |-> 0, attrition_rate |-> 0, avg_age |-> 0,
                          avg_income |-> 0, avg_satisfaction |-> 0]]

\* a KPI request over a dataset of three records, none of which it selects
C6_Witness ==
    /\ Answered(KpiView) /\ Filtered = {} /\ Len(data) = 3
    /\ Resp.status = 200 /\ Resp.body.total = 0

-----------------------------------------------------------------------------
(* C7 *)

\* C7: the years-at-company labels of a non-empty selection are the integers
\* 0, 1, ... up to the smaller of 40 and the largest YearsAtCompany selected,
\* so none exceeds 40; the rate and total series have one entry per label.
C7_YearLabels ==
    Ok(YearsView) /\ Filtered # {} =>
        LET largest == CHOOSE m \in {YearsOf(i) : i \in Filtered} :
                          \A i \in Filtered : YearsOf(i) <= m
            top == IF largest < 40 THEN largest ELSE 40
        IN  /\ Resp.body.labels = [k \in 1..(top + 1) |-> k - 1]
            /\ \A k \in 1..Len(Resp.body.labels) : Resp.body.labels[k] <= 40
            /\ Len(Resp.body.attrition_rate) = Len(Resp.body.labels)
            /\ Len(Resp.body.total) = Len(Resp.body.labels)

\* a years view over a selection that holds a record with 55 years
C7_Witness ==
    /\ Ok(YearsView)
    /\ \E i \in Filtered : YearsOf(i) = 55
    /\ Len(Resp.body.labels) = 41 /\ Resp.body.labels[41] = 40

-----------------------------------------------------------------------------
(* C8 *)

NumericFields ==
    {"Age", "MonthlyIncome", "JobSatisfaction", "EnvironmentSatisfaction",
     "RelationshipSatisfaction", "WorkLifeBalance", "JobInvolvement", "YearsAtCompany"}

RequiredFields ==
    NumericFields \cup {"Gender", "JobRole", "Education", "Department", "Attrition",
                        "OverTime", "EducationField"}

\* a field that is missing from the row or that int() rejects
Unparsable(v) == v = None \/ IsExc(int(v))

Malformed(row) ==
    \/ \E f \in RequiredFields : row[f] = None
    \/ \E f \in NumericFields : Unparsable(row[f])

\* the numeric fields a view converts with int() for a selected row
Converted(path, row) ==
    CASE path = KpiView -> {"Age", "MonthlyIncome", "JobSatisfaction"}
      [] path = AgeView -> {"Age"}
      [] path = "/api/income-by-role" -> {"MonthlyIncome"}
      [] path = "/api/satisfaction-distribution" -> {"JobSatisfaction"}
      [] path = YearsView -> {"YearsAtCompany"}
      [] path = WorklifeView ->
            IF row.Attrition \in {Yes, No}
            THEN {"JobSatisfaction", "EnvironmentSatisfaction", "RelationshipSatisfaction",
                  "WorkLifeBalance", "JobInvolvement"}
            ELSE {}
      [] OTHER -> {}

\* C8 as stated: when a record of the source is malformed, a request is
\* answered with HTTP 500 and no payload.
C8_AsStated ==
    \A path \in ApiPaths :
        Answered(path) /\ (\E i \in 1..Len(data) : Malformed(data[i])) =>
            Resp.status = 500 /\ "body" \notin DOMAIN Resp

\* C8 amended: when a record selected by the request's criteria is missing, or
\* holds a value int() rejects in, a numeric field that the requested view
\* converts for that record, the request is answered with HTTP 500 and no
\* payload; the record is not skipped.
C8_MalformedFails ==
    \A path \in ApiPaths :
        Answered(path)
        /\ (\E i \in Filtered : \E f \in Converted(path, data[i]) : Unparsable(data[i][f]))
        => Resp.status = 500 /\ "body" \notin DOMAIN Resp

\* a KPI request that selects a record whose Age is "3x" next to two
\* well-formed records
C8_Witness ==
    /\ Answered(KpiView)
    /\ Cardinality(Filtered) = 3
    /\ Cardinality({i \in Filtered : Malformed(data[i])}) = 1
    /\ \E i \in Filtered : data[i].Age = <<51, 120>>
    /\ Resp.status = 500

-----------------------------------------------------------------------------
(* C10 *)

CriteriaViews == ApiPaths \ {"/api/filters"}

\* every series is as long as the label sequence and holds only zeros
ZeroSeries(body) ==
    \A k \in DOMAIN body \ {"labels"} :
        /\ Len(body[k]) = Len(body.labels)
        /\ \A i \in 1..Len(body[k]) : body[k][i] = 0

\* C10: in every view, a request whose criteria select no record is answered
\* 200 with a well-formed payload: every series has the length of the label
\* sequence and every count, rate and average is 0.
C10_EmptySelection ==
    \A path \in CriteriaViews :
        Answered(path) /\ Filtered = {} =>
            /\ Resp.status = 200
            /\ IF path = KpiView
               THEN \A k \in DOMAIN Resp.body : Resp.body[k] = 0
               ELSE ZeroSeries(Resp.body)

\* a years view over a dataset of three records, none of which it selects
C10_Witness ==
    /\ Answered(YearsView) /\ Filtered = {} /\ Len(data) = 3
    /\ Resp.status = 200 /\ Resp.body.labels = <<0>> /\ Resp.body.total = <<0>>

-----------------------------------------------------------------------------
(* main.py: FastAPI runs each sync endpoint on a worker thread of its pool, *)
(* so requests overlap; every call of load_data opens the file anew and     *)
(* reads it row by row.  An endpoint is written here as a function of the   *)
(* rows its load_data call returned.                                       *)

\* the loop body of load_data: the row is appended unless a test continues
main_Keeps(row, gender, job_role, education, department) ==
    /\ ~(Truthy(gender) /\ row.Gender # gender)
    /\ ~(Truthy(job_role) /\ row.JobRole # job_role)
    /\ ~(Truthy(education) /\ row.Education # education)
    /\ ~(Truthy(department) /\ row.Department # department)

\* load_data run from open() to return with no other thread in between
main_load_data(gender, job_role, education, department) ==
    SelectSeq(data, LAMBDA row : main_Keeps(row, gender, job_role, education, department))

get_kpis(rs) ==
    LET total == Len(rs)
        attrition == Len(SelectSeq(rs, LAMBDA r : r.Attrition = Yes))
        ages == Ints(rs, "Age")
        incomes == Ints(rs, "MonthlyIncome")
        sats == Ints(rs, "JobSatisfaction")
        exc == FirstExc(ages \o incomes \o sats)
    IN  IF total = 0
        THEN [total |-> 0, attrition_rate |-> 0, avg_age |-> 0, avg_income |-> 0,
              avg_satisfaction |-> 0]
        ELSE IF IsExc(exc) THEN exc
        ELSE [total |-> total,
              attrition_rate |-> RoundHalfEven(attrition * 1000, total),
              avg_age |-> RoundHalfEven(SumSeq(Vals(ages)) * 10, total),
              avg_income |-> RoundHalfEven(SumSeq(Vals(incomes)), total),
              avg_satisfaction |-> RoundHalfEven(SumSeq(Vals(sats)) * 100, total)]

attrition_by_department(rs) ==
    LET keys == sorted(Keys(rs, "Department"))
        labels == keys.val
        dept_total(l) == Count(rs, LAMBDA r : r.Department = l)
        dept_attr(l) == Count(rs, LAMBDA r : r.Department = l /\ r.Attrition = Yes)
    IN  IF IsExc(keys) THEN keys
        ELSE [labels |-> labels,
              total |-> Map(labels, dept_total),
              attrition |-> Map(labels, dept_attr),
              rate |-> Map(labels, LAMBDA l :
                  IF dept_total(l) # 0 THEN RoundHalfEven(dept_attr(l) * 1000, dept_total(l))
                  ELSE 0)]

years_attrition(rs) ==
    LET years == Ints(rs, "YearsAtCompany")
        parsed == FirstExc(years)
        year_total(y) == Cardinality({i \in 1..Len(rs) : years[i].val = y})
        year_attr(y) ==
            Cardinality({i \in 1..Len(rs) : years[i].val = y /\ rs[i].Attrition = Yes})
        max_year == IF rs # <<>> THEN max({years[i].val : i \in 1..Len(rs)}).val ELSE 0
        labels == range(0, Min(max_year + 1, 41), 1)
    IN  IF IsExc(parsed) THEN parsed
        ELSE [labels |-> labels,
              attrition_rate |-> Map(labels, LAMBDA y :
                  IF year_total(y) # 0 THEN RoundHalfEven(year_attr(y) * 1000, year_total(y))
                  ELSE 0),
              total |-> Map(labels, year_total)]

get_filters(rs) ==
    LET genders == sorted({rs[i].Gender : i \in 1..Len(rs)})
        job_roles == sorted({rs[i].JobRole : i \in 1..Len(rs)})
        educations == Map(SortAsc(DOMAIN EDUCATION_MAP),
                          LAMBDA k : [value |-> k, label |-> EDUCATION_MAP[k]])
        departments == sorted({rs[i].Department : i \in 1..Len(rs)})
    IN  IF IsExc(genders) THEN genders
        ELSE IF IsExc(job_roles) THEN job_roles
        ELSE IF IsExc(departments) THEN departments
        ELSE [genders |-> genders.val, job_roles |-> job_roles.val,
              educations |-> educations, departments |-> departments.val]

attrition_by_jobrole(rs) ==
    LET keys == sorted(Keys(rs, "JobRole"))
        labels == keys.val
        role_total(l) == Count(rs, LAMBDA r : r.JobRole = l)
        role_attr(l) == Count(rs, LAMBDA r : r.JobRole = l /\ r.Attrition = Yes)
    IN  IF IsExc(keys) THEN keys
        ELSE [labels |-> labels,
              total |-> Map(labels, role_total),
              attrition |-> Map(labels, role_attr),
              rate |-> Map(labels, LAMBDA l :
                  IF role_total(l) # 0 THEN RoundHalfEven(role_attr(l) * 1000, role_total(l))
                  ELSE 0)]

\* the age histogram with the last bin left open below the clamp
age_distribution_NoClamp(rs) ==
    LET bins == range(18, 65, 5)
        ages == Ints(rs, "Age")
        parsed == FirstExc(ages)
        idx(i) == (ages[i].val - 18) \div 5
        InBin(i, b) == 0 <= idx(i) /\ idx(i) < Len(bins) /\ idx(i) = b - 1
    IN  IF IsExc(parsed) THEN parsed
        ELSE [labels |-> Map(bins, LAMBDA b : str(b) \o <<45>> \o str(b + 4)),
              total |-> [b \in 1..Len(bins) |->
                  Cardinality({i \in 1..Len(rs) : InBin(i, b)})],
              attrition |-> [b \in 1..Len(bins) |->
                  Cardinality({i \in 1..Len(rs) : InBin(i, b) /\ rs[i].Attrition = Yes})]]

age_distribution(rs) ==
    LET bins == range(18, 65, 5)
        ages == Ints(rs, "Age")
        parsed == FirstExc(ages)
        idx(i) == Min((ages[i].val - 18) \div 5, Len(bins) - 1)
        InBin(i, b) == 0 <= idx(i) /\ idx(i) < Len(bins) /\ idx(i) = b - 1
    IN  IF IsExc(parsed) THEN parsed
        ELSE [labels |-> Map(bins, LAMBDA b : str(b) \o <<45>> \o str(b + 4)),
              total |-> [b \in 1..Len(bins) |->
                  Cardinality({i \in 1..Len(rs) : InBin(i, b)})],
              attrition |-> [b \in 1..Len(bins) |->
                  Cardinality({i \in 1..Len(rs) : InBin(i, b) /\ rs[i].Attrition = Yes})]]

gender_split(rs) ==
    LET keys == sorted(Keys(rs, "Gender"))
        labels == keys.val
        cnt(l) == Count(rs, LAMBDA r : r.Gender = l)
        attr_cnt(l) == Count(rs, LAMBDA r : r.Attrition = Yes /\ r.Gender = l)
    IN  IF IsExc(keys) THEN keys
        ELSE [labels |-> labels, total |-> Map(labels, cnt),
              attrition |-> Map(labels, attr_cnt)]

income_by_role(rs) ==
    LET incomes == Ints(rs, "MonthlyIncome")
        parsed == FirstExc(incomes)
        keys == sorted(Keys(rs, "JobRole"))
        \* role_income[l]: the incomes of the rows of role l, in row order
        role_income(l) ==
            Map(SelectSeq([i \in 1..Len(rs) |-> i], LAMBDA i : rs[i].JobRole = l),
                LAMBDA i : incomes[i].val)
    IN  IF IsExc(parsed) THEN parsed
        ELSE IF IsExc(keys) THEN keys
        ELSE [labels |-> keys.val,
              avg_income |-> Map(keys.val, LAMBDA l :
                  IF role_income(l) # <<>>
                  THEN RoundHalfEven(SumSeq(role_income(l)), Len(role_income(l)))
                  ELSE 0)]

satisfaction_distribution(rs) ==
    LET \* "1 - Low", "2 - Medium", "3 - High", "4 - Very High"
        sat_labels == << <<49, 32, 45, 32, 76, 111, 119>>,
                         <<50, 32, 45, 32, 77, 101, 100, 105, 117, 109>>,
                         <<51, 32, 45, 32, 72, 105, 103, 104>>,
                         <<52, 32, 45, 32, 86, 101, 114, 121, 32, 72, 105, 103, 104>> >>
        \* idx = int(r["JobSatisfaction"]) - 1, then left[idx] or stayed[idx]
        idx == Map(rs, LAMBDA r :
                  LET n == int(r.JobSatisfaction)
                  IN  IF IsExc(n) THEN n ELSE ListIndex(n.val - 1, 4))
        exc == FirstExc(idx)
    IN  IF IsExc(exc) THEN exc
        ELSE [labels |-> sat_labels,
              stayed |-> [k \in 1..4 |->
                  Cardinality({i \in 1..Len(rs) : idx[i].val = k /\ ~(rs[i].Attrition = Yes)})],
              left |-> [k \in 1..4 |->
                  Cardinality({i \in 1..Len(rs) : idx[i].val = k /\ rs[i].Attrition = Yes})]]

overtime_attrition(rs) ==
    LET \* data[r["OverTime"]][r["Attrition"]] += 1: KeyError unless both are
        \* "Yes" or "No"
        known(r) == r.OverTime \in {Yes, No} /\ r.Attrition \in {Yes, No}
        n(ot, attr) == Count(rs, LAMBDA r : r.OverTime = ot /\ r.Attrition = attr)
    IN  IF \E i \in 1..Len(rs) : ~known(rs[i]) THEN Raise("KeyError")
        ELSE [labels |-> << <<87, 105, 116, 104, 32, 79, 118, 101, 114, 116, 105, 109, 101>>,
                            <<87, 105, 116, 104, 111, 117, 116, 32, 79, 118, 101, 114, 116,
                              105, 109, 101>> >>,
              stayed |-> <<n(Yes, No), n(No, No)>>,
              left |-> <<n(Yes, Yes), n(No, Yes)>>]

education_field(rs) ==
    LET keys == sorted(Keys(rs, "EducationField"))
        labels == keys.val
        cnt(l) == Count(rs, LAMBDA r : r.EducationField = l)
        attr(l) == Count(rs, LAMBDA r : r.Attrition = Yes /\ r.EducationField = l)
    IN  IF IsExc(keys) THEN keys
        ELSE [labels |-> labels, total |-> Map(labels, cnt), attrition |-> Map(labels, attr)]

worklife_balance(rs) ==
    LET metrics == <<"JobSatisfaction", "EnvironmentSatisfaction", "RelationshipSatisfaction",
                     "WorkLifeBalance", "JobInvolvement">>
        \* "Job Satisfaction", "Environment", "Relationships", "Work-Life Balance",
        \* "Job Involvement"
        labels == << <<74, 111, 98, 32, 83, 97, 116, 105, 115, 102, 97, 99, 116, 105, 111, 110>>,
                     <<69, 110, 118, 105, 114, 111, 110, 109, 101, 110, 116>>,
                     <<82, 101, 108, 97, 116, 105, 111, 110, 115, 104, 105, 112, 115>>,
                     <<87, 111, 114, 107, 45, 76, 105, 102, 101, 32, 66, 97, 108, 97, 110, 99, 101>>,
                     <<74, 111, 98, 32, 73, 110, 118, 111, 108, 118, 101, 109, 101, 110, 116>> >>
        stayed(m) == Ints(SelectSeq(rs, LAMBDA r : r.Attrition = No), m)
        left(m) == Ints(SelectSeq(rs, LAMBDA r : r.Attrition = Yes), m)
        \* the conversions in the order the loop over the metrics makes them
        exc == FirstExc(stayed(metrics[1]) \o left(metrics[1]) \o stayed(metrics[2])
                        \o left(metrics[2]) \o stayed(metrics[3]) \o left(metrics[3])
                        \o stayed(metrics[4]) \o left(metrics[4]) \o stayed(metrics[5])
                        \o left(metrics[5]))
        avg(xs) == IF xs # <<>> THEN RoundHalfEven(SumSeq(Vals(xs)) * 100, Len(xs)) ELSE 0
    IN  IF IsExc(exc) THEN exc
        ELSE [labels |-> labels,
              stayed |-> Map(metrics, LAMBDA m : avg(stayed(m))),
              left |-> Map(metrics, LAMBDA m : avg(left(m)))]

\* the endpoint the app routes a path to, applied to the loaded rows; an
\* exception leaves the endpoint as a 500 response
Endpoint(path, rs) ==
    LET result == CASE path = "/api/filters" -> get_filters(rs)
                    [] path = "/api/kpis" -> get_kpis(rs)
                    [] path = "/api/attrition-by-department" -> attrition_by_department(rs)
                    [] path = "/api/attrition-by-jobrole" -> attrition_by_jobrole(rs)
                    [] path = "/api/age-distribution" -> age_distribution(rs)
                    [] path = "/api/gender-split" -> gender_split(rs)
                    [] path = "/api/income-by-role" -> income_by_role(rs)
                    [] path = "/api/satisfaction-distribution" -> satisfaction_distribution(rs)
                    [] path = "/api/overtime-attrition" -> overtime_attrition(rs)
                    [] path = "/api/education-field" -> education_field(rs)
                    [] path = "/api/years-attrition" -> years_attrition(rs)
                    [] path = "/api/worklife-balance" -> worklife_balance(rs)
    IN  IF IsExc(result) THEN [status |-> 500, error |-> result.exc]
        ELSE [status |-> 200, body |-> result]

\* the requests that overlap; FastAPI binds an absent parameter to None and
\* one given as ?gender= to ""
ConcRequests ==
    { [path |-> "/api/kpis", gender |-> None, job_role |-> None, education |-> None,
       department |-> None],
      [path |-> "/api/kpis", gender |-> F, job_role |-> None, education |-> None,
       department |-> None],
      [path |-> "/api/attrition-by-department", gender |-> <<>>, job_role |-> None,
       education |-> <<49>>, department |-> None],
      [path |-> "/api/years-attrition", gender |-> None, job_role |-> None,
       education |-> None, department |-> HR] }

\* the rows of the datasets of the overlapping requests: a leaver, and a
\* stayer whose Age is "3x"
ConcEmployees ==
    { Employee(F, Dev, <<49>>, HR, Yes, <<51, 48>>, <<50>>, <<49>>, Yes, Med, <<50>>),
      Employee(M, QA, <<50>>, IT, No, <<51, 120>>, <<51>>, <<52>>, No, Art, <<48>>) }

ConcInit ==
    /\ data \in SeqsUpTo(ConcEmployees, MaxRows)
    /\ Idle

\* one file handle shared by every call of load_data
Handle_Shared(t) == 1

\* the file handle thread t reads: the one its own load_data call opened
Handle(t) == t

\* a worker thread enters the endpoint and load_data opens the file
Dispatch(t, req) ==
    /\ pc[t] = "idle"
    /\ pc' = [pc EXCEPT ![t] = "reading"]
    /\ request' = [request EXCEPT ![t] = req]
    /\ rows' = [rows EXCEPT ![t] = <<>>]
    /\ cursor' = [cursor EXCEPT ![Handle(t)] = 1]
    /\ UNCHANGED <<data, response>>

\* one iteration of `for row in csv.DictReader(f)`
ReadRow(t) ==
    /\ pc[t] = "reading"
    /\ cursor[Handle(t)] <= Len(data)
    /\ LET row == data[cursor[Handle(t)]]
       IN  rows' = [rows EXCEPT ![t] =
              IF main_Keeps(row, request[t].gender, request[t].job_role,
                            request[t].education, request[t].department)
              THEN Append(@, row) ELSE @]
    /\ cursor' = [cursor EXCEPT ![Handle(t)] = @ + 1]
    /\ UNCHANGED <<data, pc, request, response>>

\* the reader is exhausted: load_data returns and the endpoint aggregates
Respond(t) ==
    /\ pc[t] = "reading"
    /\ cursor[Handle(t)] > Len(data)
    /\ pc' = [pc EXCEPT ![t] = "responded"]
    /\ response' = [response EXCEPT ![t] = Endpoint(request[t].path, rows[t])]
    /\ UNCHANGED <<data, request, rows, cursor>>

\* the response is sent and the worker thread returns to the pool
Complete(t) ==
    /\ pc[t] = "responded"
    /\ pc' = [pc EXCEPT ![t] = "idle"]
    /\ request' = [request EXCEPT ![t] = NoRequest]
    /\ rows' = [rows EXCEPT ![t] = <<>>]
    /\ response' = [response EXCEPT ![t] = NoResponse]
    /\ cursor' = [cursor EXCEPT ![t] = 0]
    /\ UNCHANGED data

ConcNext ==
    \E t \in Threads :
        \/ \E req \in ConcRequests : Dispatch(t, req)
        \/ ReadRow(t)
        \/ Respond(t)
        \/ Complete(t)

ConcSpec == ConcInit /\ [][ConcNext]_vars

-----------------------------------------------------------------------------
(* C9 *)

\* the response to a request when it runs with no other request in between
Alone(req) ==
    Endpoint(req.path,
             main_load_data(req.gender, req.job_role, req.education, req.department))

\* the threads whose request state a step changes
Touched ==
    {t \in Threads :
        \/ pc'[t] # pc[t] \/ request'[t] # request[t] \/ rows'[t] # rows[t]
        \/ response'[t] # response[t] \/ cursor'[t] # cursor[t]}

\* C9: under every interleaving of overlapping requests, an answered request
\* has the response it gets when run alone, two answered requests with the
\* same path and criteria have identical responses, no step changes the
\* dataset, and no step changes the state of more than one request.
C9_Isolation ==
    /\ [](\A t \in Threads : pc[t] = "responded" => response[t] = Alone(request[t]))
    /\ [](\A t, u \in Threads :
            pc[t] = "responded" /\ pc[u] = "responded" /\ request[t] = request[u]
            => response[t] = response[u])
    /\ [][data' = data /\ Cardinality(Touched) <= 1]_vars

\* one thread has answered a filtered request while another, dispatched
\* with different criteria, is in the middle of the file
C9_Witness ==
    \E t, u \in Threads :
        /\ pc[t] = "responded" /\ response[t].status = 200
        /\ request[t].gender = F /\ Len(rows[t]) = 2 /\ Len(data) = 3
        /\ pc[u] = "reading" /\ cursor[u] = 2 /\ request[u].gender # F

-----------------------------------------------------------------------------
(* server.py and main.py side by side: one request put to both *)

\* ROUTES[path][0], the handler server.py routes a path to, applied as do_GET
\* applies it to the criteria p: fn(p) if needs_params else fn()
ServerHandler(path, p) ==
    CASE path = "/api/filters" -> api_filters
      [] path = "/api/kpis" -> api_kpis(p)
      [] path = "/api/attrition-by-department" -> api_attrition_dept(p)
      [] path = "/api/attrition-by-jobrole" -> api_attrition_jobrole(p)
      [] path = "/api/age-distribution" -> api_age_dist(p)
      [] path = "/api/gender-split" -> api_gender_split(p)
      [] path = "/api/income-by-role" -> api_income_role(p)
      [] path = "/api/satisfaction-distribution" -> api_satisfaction(p)
      [] path = "/api/overtime-attrition" -> api_overtime(p)
      [] path = "/api/education-field" -> api_edu_field(p)
      [] path = "/api/years-attrition" -> api_years_attrition(p)
      [] path = "/api/worklife-balance" -> api_worklife(p)

\* the endpoint main.py decorates with a path, called with the criteria p:
\* get_filters loads with no criteria, every other endpoint with all four
AppHandler(path, p) ==
    Endpoint(path,
             IF path = "/api/filters" THEN main_load_data(None, None, None, None)
             ELSE main_load_data(p.gender, p.job_role, p.education, p.department))

\* the worker thread of the FastAPI app that takes the request
AppThread == 2

\* the criteria put to both programs: none, one value, a blank value, a
\* value no row has, and pairs of them
EquivCriteria ==
    { [gender |-> None, job_role |-> None, education |-> None, department |-> None],
      [gender |-> F, job_role |-> None, education |-> None, department |-> None],
      [gender |-> <<>>, job_role |-> None, education |-> None, department |-> None],
      [gender |-> X, job_role |-> None, education |-> None, department |-> None],
      [gender |-> None, job_role |-> QA, education |-> None, department |-> <<>>],
      [gender |-> None, job_role |-> None, education |-> <<50>>, department |-> IT],
      [gender |-> M, job_role |-> None, education |-> None, department |-> HR] }

\* server.py answers a request: the routed handler runs inside do_GET's try,
\* an exception becomes send_error(500)
ServerCall(path, p) ==
    /\ pc[ServerThread] = "idle"
    /\ pc' = [pc EXCEPT ![ServerThread] = "responded"]
    /\ request' = [request EXCEPT ![ServerThread] =
          [path |-> path, gender |-> p.gender, job_role |-> p.job_role,
           education |-> p.education, department |-> p.department]]
    /\ rows' = [rows EXCEPT ![ServerThread] = IF path = "/api/filters"
                                              THEN load_data(None, None, None, None)
                                              ELSE Load(p)]
    /\ LET result == ServerHandler(path, p)
       IN  response' = [response EXCEPT ![ServerThread] =
              IF IsExc(result) THEN [status |-> 500, error |-> result.exc]
              ELSE [status |-> 200, body |-> result]]
    /\ UNCHANGED <<data, cursor>>

\* main.py answers the request server.py has answered
AppCall ==
    /\ pc[ServerThread] = "responded"
    /\ pc[AppThread] = "idle"
    /\ pc' = [pc EXCEPT ![AppThread] = "responded"]
    /\ request' = [request EXCEPT ![AppThread] = request[ServerThread]]
    /\ rows' = [rows EXCEPT ![AppThread] =
          IF request[ServerThread].path = "/api/filters"
          THEN main_load_data(None, None, None, None)
          ELSE main_load_data(request[ServerThread].gender, request[ServerThread].job_role,
                              request[ServerThread].education,
                              request[ServerThread].department)]
    /\ response' = [response EXCEPT ![AppThread] =
          AppHandler(request[ServerThread].path, request[ServerThread])]
    /\ UNCHANGED <<data, cursor>>

\* both responses are sent
EquivDone ==
    /\ pc[ServerThread] = "responded"
    /\ pc[AppThread] = "responded"
    /\ pc' = [pc EXCEPT ![ServerThread] = "idle", ![AppThread] = "idle"]
    /\ request' = [request EXCEPT ![ServerThread] = NoRequest, ![AppThread] = NoRequest]
    /\ rows' = [rows EXCEPT ![ServerThread] = <<>>, ![AppThread] = <<>>]
    /\ response' = [response EXCEPT ![ServerThread] = NoResponse, ![AppThread] = NoResponse]
    /\ UNCHANGED <<data, cursor>>

EquivNext ==
    \/ \E path \in ApiPaths, p \in EquivCriteria : ServerCall(path, p)
    \/ AppCall
    \/ EquivDone

EquivSpec == Init /\ [][EquivNext]_vars

-----------------------------------------------------------------------------
(* C11 *)

\* both programs have answered the same request
BothAnswered ==
    /\ pc[ServerThread] = "responded"
    /\ pc[AppThread] = "responded"
    /\ request[ServerThread] = request[AppThread]

\* C11: for every dataset, every API path and all criteria, the handler
\* server.py routes the path to and the endpoint main.py routes it to load
\* the same rows, fail together or succeed together, and on success return
\* the same payload: the same fields, labels and series.
C11_Equivalent ==
    BothAnswered =>
        /\ rows[ServerThread] = rows[AppThread]
        /\ response[ServerThread].status = response[AppThread].status
        /\ response[ServerThread].status = 200 =>
               response[ServerThread].body = response[AppThread].body

\* both have answered the incomes by role of the women of a three-row
\* dataset, two roles among them
C11_Witness ==
    /\ BothAnswered
    /\ request[AppThread].path = "/api/income-by-role"
    /\ request[AppThread].gender = F
    /\ Len(data) = 3
    /\ response[AppThread].status = 200
    /\ Len(response[AppThread].body.labels) = 2

\* both have failed on a row whose Age is not a number, selected by a
\* blank gender
C11_FailWitness ==
    /\ BothAnswered
    /\ request[AppThread].path = "/api/age-distribution"
    /\ request[AppThread].gender = <<>>
    /\ response[ServerThread].status = 500
    /\ response[AppThread].status = 500

====
